---------------------------- MODULE Spec2Model ----------------------------
(***************************************************************************)
(* Model of scripts/generate_charts.py (nimsync benchmark chart            *)
(* generator).                                                             *)
(*                                                                         *)
(* The script is one sequential process: main() globs the result-set       *)
(* directories, picks the latest by name, calls the three plot_* functions *)
(* one after the other and prints a summary.  Nothing in the file catches  *)
(* an exception, so an exception raised inside a plot_* function unwinds   *)
(* through main() and the interpreter ends the process with a traceback    *)
(* and exit status 1.                                                      *)
(*                                                                         *)
(* Text is modelled as a sequence of code points, a real number as a       *)
(* fraction [nan, num, den] (nan is the float NaN), a CSV file as          *)
(* missing / malformed / a table of rows.  Row positions are 1-based here  *)
(* (pandas' RangeIndex is 0-based).  Calls into matplotlib that only draw  *)
(* on the current figure change none of the modelled state; what is kept   *)
(* of a chart is the statistics the function computes for it.              *)
(***************************************************************************)
EXTENDS Integers, Sequences, FiniteSets, TLC

VARIABLES
    pc,            \* position of the process in main()
    results_dirs,  \* glob.glob("benchmark_results_*"), in enumeration order
    fs,            \* the file system: directory name -> chart kind -> CSV file
    latest_dir,    \* main()'s latest_dir
    stdout,        \* what print() wrote, in order
    stderr,        \* the interpreter's traceback of an uncaught exception
    artifacts,     \* the images savefig wrote: [dir, name]
    accessed,      \* the paths the process tested, read or wrote: [dir, name]
    attempted,     \* the chart kinds whose plot_* function was called
    stats,         \* chart kind -> the statistics its plot_* function computed
    exit_code      \* the process's exit status, meaningful once pc = "exited"

vars == <<pc, results_dirs, fs, latest_dir, stdout, stderr, artifacts,
          accessed, attempted, stats, exit_code>>

----------------------------------------------------------------------------
(* Bounds of the input families *)

MaxSuffixLen == 1
MaxDirs == 3
MaxSweepRows == 3
MaxThroughput == 2
MaxSamples == 150
MaxStep == 2

----------------------------------------------------------------------------
(* Program constants *)

Million == 1000000
WindowDivisor == 50
QuantileScale == 1000
P50 == 500
P99 == 990
P999 == 999
ExitFailure == 1

\* "benchmark_results_", the fixed part of the glob pattern
Prefix == <<98, 101, 110, 99, 104, 109, 97, 114, 107, 95,
            114, 101, 115, 117, 108, 116, 115, 95>>

TargetTest == "10-second sustained load"

ChartKinds == {"sweep", "sustained", "latency"}

csv_file(kind) ==
    CASE kind = "sweep"     -> "buffer_sizes.csv"
      [] kind = "sustained" -> "sustained_timeseries.csv"
      [] kind = "latency"   -> "latency_samples.csv"

output(kind) ==
    CASE kind = "sweep"     -> "chart_buffer_sizes.png"
      [] kind = "sustained" -> "chart_sustained_timeseries.png"
      [] kind = "latency"   -> "chart_latency_distribution.png"

----------------------------------------------------------------------------
(* Values *)

RECURSIVE GCD(_, _)
GCD(a, b) == IF b = 0 THEN a ELSE GCD(b, a % b)

NaN == [nan |-> TRUE, num |-> 0, den |-> 1]

\* the fraction n/d (n >= 0, d > 0) in lowest terms, so that equal values
\* are equal records
Frac(n, d) == [nan |-> FALSE, num |-> n \div GCD(n, d), den |-> d \div GCD(n, d)]

\* float division as numpy's float64 does it: 0/0 is NaN (a RuntimeWarning,
\* no exception).  Numerators here are never negative, and x/0 with x > 0
\* (inf) cannot arise from a mean of non-negative values.
float_div(a, b) ==
    IF a.nan \/ b.nan \/ b.num = 0 THEN NaN
    ELSE Frac(a.num * b.den, a.den * b.num)

float_mul(a, k) == IF a.nan THEN NaN ELSE Frac(a.num * k, a.den)

Missing == [kind |-> "missing", rows |-> <<>>]
Malformed == [kind |-> "malformed", rows |-> <<>>]
Table(rows) == [kind |-> "table", rows |-> rows]

NoStats == [computed |-> FALSE]

Range(s) == {s[i] : i \in 1..Len(s)}

\* s[lo] + ... + s[hi], by halves
RECURSIVE SumRange(_, _, _)
SumRange(s, lo, hi) ==
    IF lo > hi THEN 0
    ELSE IF lo = hi THEN s[lo]
    ELSE SumRange(s, lo, (lo + hi) \div 2) + SumRange(s, (lo + hi) \div 2 + 1, hi)

SumSeq(s) == SumRange(s, 1, Len(s))

MinOf(S) == CHOOSE x \in S : \A y \in S : x <= y
MaxOf(S) == CHOOSE x \in S : \A y \in S : y <= x

----------------------------------------------------------------------------
(* main(): locating the result set (lines 145-152) *)

\* a < b on Python str: code point by code point, a proper prefix is smaller
RECURSIVE str_lt(_, _)
str_lt(a, b) ==
    IF a = <<>> THEN b # <<>>
    ELSE IF b = <<>> THEN FALSE
    ELSE IF Head(a) = Head(b) THEN str_lt(Tail(a), Tail(b))
    ELSE Head(a) < Head(b)

\* x put into the ascending list s, after the elements that are not greater
RECURSIVE insert_sorted(_, _)
insert_sorted(x, s) ==
    IF s = <<>> THEN <<x>>
    ELSE IF str_lt(x, Head(s)) THEN <<x>> \o s
    ELSE <<Head(s)>> \o insert_sorted(x, Tail(s))

\* sorted(list of str): ascending and stable
RECURSIVE sorted(_)
sorted(s) ==
    IF s = <<>> THEN <<>>
    ELSE insert_sorted(s[Len(s)], sorted(SubSeq(s, 1, Len(s) - 1)))

\* the last entry in enumeration order: the sort left out
latest_dir_unsorted(dirs) == dirs[Len(dirs)]

\* sorted(results_dirs)[-1]
select_latest(dirs) == sorted(dirs)[Len(dirs)]

----------------------------------------------------------------------------
(* plot_buffer_sizes: the optimal point (lines 39-41) *)

\* numpy argmax: the first position holding the maximum
RECURSIVE argmax_scan(_, _, _)
argmax_scan(v, i, best) ==
    IF i > Len(v) THEN best
    ELSE argmax_scan(v, i + 1, IF v[i] > v[best] THEN i ELSE best)

\* the last position holding the maximum
idxmax_last(v) == MaxOf({i \in 1..Len(v) : \A j \in 1..Len(v) : v[j] <= v[i]})

\* Series.idxmax() of a non-empty column
idxmax(v) == argmax_scan(v, 2, 1)

Column(rows, name) == [i \in 1..Len(rows) |-> rows[i][name]]

\* lines 39-41: the row at optimal_idx, its buffer_size, its throughput
\* (optimal_value, the df.loc read of line 41) and that throughput / 1e6,
\* the value the annotation is drawn at
sweep_stats(rows) ==
    LET optimal_idx == idxmax(Column(rows, "throughput_ops_per_sec"))
    IN  [computed |-> TRUE,
         optimal_idx |-> optimal_idx,
         optimal_size |-> rows[optimal_idx].buffer_size,
         optimal_value |-> rows[optimal_idx].throughput_ops_per_sec,
         optimal_throughput |->
             Frac(rows[optimal_idx].throughput_ops_per_sec, Million)]

----------------------------------------------------------------------------
(* plot_sustained_timeseries: filter, rolling average, statistics *)

\* every row kept, whatever its test_name
filter_none(rows) == rows

\* df[df['test_name'] == '10-second sustained load']
filter_10s(rows) == SelectSeq(rows, LAMBDA r : r.test_name = TargetTest)

\* max(1, len(df_10s) // 50)
window_size(n) == IF n \div WindowDivisor > 1 THEN n \div WindowDivisor ELSE 1

\* Series.rolling(window=w).mean(): min_periods defaults to the window, so a
\* position with fewer than w observations behind it holds NaN
rolling_mean(x, w) ==
    [i \in 1..Len(x) |->
        IF i < w THEN NaN ELSE Frac(SumSeq(SubSeq(x, i - w + 1, i)), w)]

scale_down(v) == IF v.nan THEN NaN ELSE Frac(v.num, v.den * Million)

\* lines 76-92.  min, max and mean are each divided by 1e6 before the
\* variance is formed; max - min is taken here over the common 1e6.
sustained_stats(rows) ==
    LET x == Column(rows, "throughput_ops_per_sec")
        n == Len(x)
        w == window_size(n)
        rolling_avg == rolling_mean(x, w)
        avg_throughput == Frac(SumSeq(x), n * Million)
        spread == Frac(MaxOf(Range(x)) - MinOf(Range(x)), Million)
    IN  [computed |-> TRUE,
         window_size |-> w,
         rolling_avg |-> rolling_avg,
         rolling_avg_plotted |-> [i \in 1..n |-> scale_down(rolling_avg[i])],
         avg_throughput |-> avg_throughput,
         variance |-> float_mul(float_div(spread, avg_throughput), 100)]

----------------------------------------------------------------------------
(* plot_latency_distribution: percentile lines (lines 127-129) *)

RECURSIVE insert_value(_, _)
insert_value(x, s) ==
    IF s = <<>> THEN <<x>>
    ELSE IF x < Head(s) THEN <<x>> \o s
    ELSE <<Head(s)>> \o insert_value(x, Tail(s))

RECURSIVE sort_values(_)
sort_values(s) ==
    IF s = <<>> THEN <<>> ELSE insert_value(Head(s), sort_values(Tail(s)))

\* Series.quantile(p / 1000) of a non-empty column, linear interpolation
\* between the two order statistics around rank (n - 1) * p
quantile(v, p) ==
    LET s == sort_values(v)
        rank == (Len(s) - 1) * p
        lo == rank \div QuantileScale
        frac == rank % QuantileScale
        hi == IF frac = 0 THEN lo ELSE lo + 1
    IN  Frac(s[lo + 1] * QuantileScale + (s[hi + 1] - s[lo + 1]) * frac,
             QuantileScale)

latency_stats(rows) ==
    LET latencies_ns == Column(rows, "latency_ns")
    IN  [computed |-> TRUE,
         p50 |-> quantile(latencies_ns, P50),
         p99 |-> quantile(latencies_ns, P99),
         p999 |-> quantile(latencies_ns, P999)]

----------------------------------------------------------------------------
(* The three plot_* functions, as functions of the CSV file they find.      *)
(* result: "skipped_missing" (warning, return), "skipped_empty" (warning,   *)
(* return), "raised" (an exception leaves the function) or "generated"      *)
(* (savefig wrote the image).                                               *)

Returned(result) == [result |-> result, stats |-> NoStats, exc |-> "none"]
Raised(exc) == [result |-> "raised", stats |-> NoStats, exc |-> exc]
Generated(st) == [result |-> "generated", stats |-> st, exc |-> "none"]

\* lines 19-53.  A malformed file makes read_csv or the first column access
\* raise; on a table without rows idxmax raises ValueError (line 39).
plot_buffer_sizes_result(f) ==
    IF f.kind = "missing" THEN Returned("skipped_missing")
    ELSE IF f.kind = "malformed" THEN Raised("read_csv/KeyError")
    ELSE IF f.rows = <<>> THEN Raised("ValueError")
    ELSE Generated(sweep_stats(f.rows))

\* lines 55-103
plot_sustained_timeseries_result(f) ==
    IF f.kind = "missing" THEN Returned("skipped_missing")
    ELSE IF f.kind = "malformed" THEN Raised("read_csv/KeyError")
    ELSE LET df_10s == filter_10s(f.rows)
         IN  IF Len(df_10s) = 0 THEN Returned("skipped_empty")
             ELSE Generated(sustained_stats(df_10s))

\* lines 105-141, for a table that holds at least one sample
plot_latency_distribution_result(f) ==
    IF f.kind = "missing" THEN Returned("skipped_missing")
    ELSE IF f.kind = "malformed" THEN Raised("read_csv/KeyError")
    ELSE Generated(latency_stats(f.rows))

Path(dir, name) == [dir |-> dir, name |-> name]

\* what a plot_* function prints, with the path it names
Message(r, kind) ==
    CASE r.result = "skipped_missing" ->
             <<[msg |-> "skipping_not_found",
                arg |-> Path(latest_dir, csv_file(kind))]>>
      [] r.result = "skipped_empty" ->
             <<[msg |-> "no_10_second_data",
                arg |-> Path(latest_dir, csv_file(kind))]>>
      [] r.result = "generated" ->
             <<[msg |-> "generated", arg |-> Path(latest_dir, output(kind))]>>
      [] r.result = "raised" -> <<>>

\* One call plot_*(latest_dir) from main(), lines 161-163: the function's
\* effects and, when it raises, the end of the process (nothing catches the
\* exception; the interpreter prints the traceback and exits with status 1).
call_plot(kind, r, next) ==
    /\ attempted' = attempted \cup {kind}
    /\ accessed' = accessed \cup {Path(latest_dir, csv_file(kind))}
                     \cup (IF r.result = "generated"
                           THEN {Path(latest_dir, output(kind))} ELSE {})
    /\ artifacts' = IF r.result = "generated"
                    THEN artifacts \cup {Path(latest_dir, output(kind))}
                    ELSE artifacts
    /\ stats' = [stats EXCEPT ![kind] = r.stats]
    /\ stdout' = stdout \o Message(r, kind)
    /\ stderr' = IF r.result = "raised"
                 THEN Append(stderr, [traceback |-> r.exc]) ELSE stderr
    /\ pc' = IF r.result = "raised" THEN "exited" ELSE next
    /\ exit_code' = IF r.result = "raised" THEN 1 ELSE exit_code
    /\ UNCHANGED <<results_dirs, fs, latest_dir>>

----------------------------------------------------------------------------
(* Actions *)

\* the two messages and a plain return: exit status 0
abort_returns ==
    /\ stdout' = stdout \o <<[msg |-> "no_results_dirs", arg |-> ""],
                             [msg |-> "run_benchmarks_first", arg |-> ""]>>
    /\ pc' = "exited"
    /\ exit_code' = 0
    /\ UNCHANGED <<latest_dir>>

\* lines 147-149: the two messages and sys.exit(1)
abort_no_results ==
    /\ stdout' = stdout \o <<[msg |-> "no_results_dirs", arg |-> ""],
                             [msg |-> "run_benchmarks_first", arg |-> ""]>>
    /\ pc' = "exited"
    /\ exit_code' = ExitFailure
    /\ UNCHANGED <<latest_dir>>

\* lines 145-158
main_locate ==
    /\ pc = "main"
    /\ IF results_dirs = <<>>
       THEN abort_no_results
       ELSE /\ latest_dir' = select_latest(results_dirs)
            /\ stdout' = stdout \o <<[msg |-> "banner", arg |-> ""],
                                     [msg |-> "title", arg |-> ""],
                                     [msg |-> "banner", arg |-> ""],
                                     [msg |-> "using_results_from",
                                      arg |-> latest_dir'],
                                     [msg |-> "blank", arg |-> ""]>>
            /\ pc' = "plot_buffer_sizes"
            /\ UNCHANGED exit_code
    /\ UNCHANGED <<results_dirs, fs, stderr, artifacts, accessed, attempted,
                   stats>>

\* line 161
plot_buffer_sizes ==
    /\ pc = "plot_buffer_sizes"
    /\ call_plot("sweep", plot_buffer_sizes_result(fs[latest_dir]["sweep"]),
                 "plot_sustained_timeseries")

\* line 162
plot_sustained_timeseries ==
    /\ pc = "plot_sustained_timeseries"
    /\ call_plot("sustained",
                 plot_sustained_timeseries_result(fs[latest_dir]["sustained"]),
                 "plot_latency_distribution")

\* line 163
plot_latency_distribution ==
    /\ pc = "plot_latency_distribution"
    /\ call_plot("latency",
                 plot_latency_distribution_result(fs[latest_dir]["latency"]),
                 "summary")

\* lines 165-175, and the return from main(): exit status 0
main_summary ==
    /\ pc = "summary"
    /\ stdout' = stdout \o <<[msg |-> "blank", arg |-> ""],
                             [msg |-> "banner", arg |-> ""],
                             [msg |-> "complete", arg |-> ""],
                             [msg |-> "banner", arg |-> ""],
                             [msg |-> "blank", arg |-> ""],
                             [msg |-> "charts_saved_in", arg |-> latest_dir],
                             [msg |-> "listed", arg |-> output("sweep")],
                             [msg |-> "listed", arg |-> output("sustained")],
                             [msg |-> "listed", arg |-> output("latency")],
                             [msg |-> "blank", arg |-> ""],
                             [msg |-> "ready", arg |-> ""]>>
    /\ pc' = "exited"
    /\ exit_code' = 0
    /\ UNCHANGED <<results_dirs, fs, latest_dir, stderr, artifacts, accessed,
                   attempted, stats>>

Next ==
    \/ main_locate
    \/ plot_buffer_sizes
    \/ plot_sustained_timeseries
    \/ plot_latency_distribution
    \/ main_summary

----------------------------------------------------------------------------
(* Input families *)

SuffixChars == {48, 49}

SeqsUpTo(S, n) == UNION {[1..k -> S] : k \in 0..n}

Name(suffix) == Prefix \o suffix

\* the lists glob can return: distinct names, in any order
DirLists(names, n) ==
    {s \in SeqsUpTo(names, n) : \A i, j \in 1..Len(s) : i # j => s[i] # s[j]}

Contents(sweeps, sustaineds, latencies) ==
    [sweep : sweeps, sustained : sustaineds, latency : latencies]

EmptyDir == [sweep |-> Missing, sustained |-> Missing, latency |-> Missing]

\* file systems in which one of the directories holds the files c
FileSystems(dirs, contents) ==
    IF dirs = {} THEN {<<>>}
    ELSE {[d \in dirs |-> IF d = p THEN c ELSE EmptyDir] :
             p \in dirs, c \in contents}

SweepRow(b, t) == [buffer_size |-> b, throughput_ops_per_sec |-> t]
SustainedRow(name, e, t) ==
    [test_name |-> name, elapsed_time_sec |-> e, throughput_ops_per_sec |-> t]
LatencyRow(l) == [latency_ns |-> l]

SampleSweep ==
    Table(<<SweepRow(1, 100), SweepRow(2, 400), SweepRow(4, 900),
            SweepRow(8, 200)>>)
SampleSustained ==
    Table(<<SustainedRow("warmup", 1, 5), SustainedRow(TargetTest, 1, 3),
            SustainedRow(TargetTest, 2, 5)>>)
SampleLatency == Table(<<LatencyRow(10), LatencyRow(1000), LatencyRow(10)>>)

InitWith(dirLists, contents) ==
    /\ results_dirs \in dirLists
    /\ fs \in FileSystems(Range(results_dirs), contents)
    /\ pc = "main"
    /\ latest_dir = <<>>
    /\ stdout = <<>>
    /\ stderr = <<>>
    /\ artifacts = {}
    /\ accessed = {}
    /\ attempted = {}
    /\ stats = [k \in ChartKinds |-> NoStats]
    /\ exit_code = 0

\* Every combination of a few files of each kind, in one or two directories
MainSweeps == {Missing, Malformed, Table(<<>>), SampleSweep}
MainSustaineds ==
    {Missing, Malformed, Table(<<>>), SampleSustained,
     Table(<<SustainedRow("warmup", 1, 5)>>),
     Table(<<SustainedRow(TargetTest, 1, 0), SustainedRow(TargetTest, 2, 0)>>)}
MainLatencies == {Missing, Malformed, SampleLatency}

Init ==
    InitWith(DirLists({Name(<<49>>), Name(<<50>>)}, 2),
             Contents(MainSweeps, MainSustaineds, MainLatencies))

Spec == Init /\ [][Next]_vars

\* Directory listings of up to MaxDirs names
AllNames == {Name(s) : s \in SeqsUpTo(SuffixChars, MaxSuffixLen)}

InitLocate ==
    InitWith(DirLists(AllNames, MaxDirs),
             Contents({Missing, SampleSweep}, {SampleSustained},
                      {Missing, SampleLatency}))

SpecLocate == InitLocate /\ [][Next]_vars

\* Sweep tables of up to MaxSweepRows rows
SweepTables ==
    {Table(rows) :
        rows \in SeqsUpTo({SweepRow(b, t) : b \in {1, 2, 4},
                                            t \in 0..MaxThroughput},
                          MaxSweepRows)}

InitSweep ==
    InitWith({<<Name(<<49>>)>>},
             Contents(SweepTables \cup {Missing, Malformed, SampleSweep},
                      {SampleSustained},
                      {SampleLatency}))

SpecSweep == InitSweep /\ [][Next]_vars

\* Sustained tables of up to MaxSamples rows: throughput (i * step) modulo
\* MaxStep + 1, and the rows all, none or two in three of the target test
Labelled(labelling, i) ==
    CASE labelling = "all"   -> TargetTest
      [] labelling = "none"  -> "warmup"
      [] labelling = "mixed" -> IF i % 3 = 0 THEN "warmup" ELSE TargetTest

SustainedTables ==
    {Table([i \in 1..n |->
              SustainedRow(Labelled(l, i), i, (i * step) % (MaxStep + 1))]) :
        n \in 0..MaxSamples, step \in 0..MaxStep,
        l \in {"all", "none", "mixed"}}

InitSustained ==
    InitWith({<<Name(<<49>>)>>},
             Contents({SampleSweep}, SustainedTables \cup {Missing, Malformed},
                      {SampleLatency}))

SpecSustained == InitSustained /\ [][Next]_vars

----------------------------------------------------------------------------
(* Properties *)

Located == results_dirs # <<>>
Exited == pc = "exited"
InputOf(kind) == fs[latest_dir][kind]
Written(kind) == Path(latest_dir, output(kind)) \in artifacts
Printed(msg, arg) ==
    \E i \in 1..Len(stdout) : stdout[i].msg = msg /\ stdout[i].arg = arg
Listed == {stdout[i].arg : i \in {j \in 1..Len(stdout) : stdout[j].msg = "listed"}}
Throughputs(rows) == Column(rows, "throughput_ops_per_sec")

\* C1: in every run that located a result set, all three chart builds are
\* attempted, whatever an earlier build ran into.
C1_AllBuildsAttempted ==
    (Exited /\ Located) => attempted = ChartKinds

\* C2: the process exits non-zero if and only if no result-set directory
\* exists.
C2_NonZeroExitIffNoResultSet ==
    Exited => ((exit_code # 0) <=> ~Located)

\* C3: for each table, a missing input file ends that chart's build in a
\* skip (warning, no image), the other builds are still attempted and the
\* run exits with status 0.
C3_MissingInputIsSkipped ==
    (Exited /\ Located) =>
        \A k \in ChartKinds :
            InputOf(k).kind = "missing" =>
                /\ Printed("skipping_not_found", Path(latest_dir, csv_file(k)))
                /\ ~Written(k)
                /\ attempted = ChartKinds
                /\ exit_code = 0

\* The part of C3 the code keeps: the same, in the runs in which no plot_*
\* function raised.
MissingInputIsSkippedUnlessRaised ==
    (Exited /\ Located /\ stderr = <<>>) =>
        \A k \in ChartKinds :
            InputOf(k).kind = "missing" =>
                /\ Printed("skipping_not_found", Path(latest_dir, csv_file(k)))
                /\ ~Written(k)
                /\ attempted = ChartKinds
                /\ exit_code = 0

\* C4: with no matching directory the run aborts with a non-zero exit before
\* any chart build: nothing is loaded, built or written.
C4_NoResultSetAborts ==
    ~Located =>
        /\ pc \in {"main", "exited"}
        /\ attempted = {}
        /\ accessed = {}
        /\ artifacts = {}
        /\ \A k \in ChartKinds : ~stats[k].computed
        /\ Exited => exit_code # 0

C4_Witness == ~Located /\ Exited /\ Printed("no_results_dirs", "")

\* a <= b in lexicographic order, stated on positions
LexLeq(a, b) ==
    \/ Len(a) <= Len(b) /\ \A i \in 1..Len(a) : a[i] = b[i]
    \/ \E i \in 1..Len(a) :
          /\ i <= Len(b)
          /\ \A j \in 1..(i - 1) : a[j] = b[j]
          /\ a[i] < b[i]

\* C5: the locator selects the one entry that is greatest in lexicographic
\* order, whatever the enumeration order, and the chart builds read from and
\* write to that directory only.
C5_LatestIsLexGreatest ==
    (pc # "main" /\ Located) =>
        /\ latest_dir \in Range(results_dirs)
        /\ \A d \in Range(results_dirs) : LexLeq(d, latest_dir)
        /\ \A p \in accessed : p.dir = latest_dir
        /\ \A a \in artifacts : a.dir = latest_dir
        /\ Printed("using_results_from", latest_dir)

C5_Witness ==
    /\ Exited
    /\ Len(results_dirs) >= 3
    /\ latest_dir # results_dirs[1]
    /\ latest_dir # results_dirs[Len(results_dirs)]
    /\ Cardinality(artifacts) = 3

\* C6: the final listing of the run summary names exactly the charts that
\* were produced in this run.
C6_ListingNamesProducedCharts ==
    (Exited /\ Located /\ exit_code = 0) =>
        Listed = {a.name : a \in artifacts}

TrailingMean(x, i, m) == Frac(SumSeq(SubSeq(x, i - m + 1, i)), m)

\* C7: the rolling average of n >= 1 samples with window max(1, n div 50) has
\* n elements, each a defined value, the mean of the trailing min(i, window)
\* samples ending at position i; the first equals the first sample.
C7_RollingAverageAlwaysDefined ==
    stats["sustained"].computed =>
        LET x == Throughputs(filter_10s(InputOf("sustained").rows))
            n == Len(x)
            w == IF n \div 50 > 1 THEN n \div 50 ELSE 1
            out == stats["sustained"].rolling_avg
        IN  /\ Len(out) = n
            /\ \A i \in 1..n :
                  /\ ~out[i].nan
                  /\ out[i] = TrailingMean(x, i, IF i < w THEN i ELSE w)
            /\ out[1] = Frac(x[1], 1)

\* What the code computes instead: the positions before the window is full
\* hold NaN, the others the mean of the trailing window.
RollingAverageAsComputed ==
    stats["sustained"].computed =>
        LET x == Throughputs(filter_10s(InputOf("sustained").rows))
            n == Len(x)
            w == IF n \div 50 > 1 THEN n \div 50 ELSE 1
            out == stats["sustained"].rolling_avg
        IN  /\ Len(out) = n
            /\ \A i \in 1..n :
                  IF i < w THEN out[i].nan
                  ELSE ~out[i].nan /\ out[i] = TrailingMean(x, i, w)

NoTargetRows(f) ==
    f.kind = "table" /\ \A i \in 1..Len(f.rows) : f.rows[i].test_name # TargetTest

\* C8: a sustained table without a row of the target test ends the sustained
\* build in a skip, not a failure: no statistic, no image, and the latency
\* build is attempted next.
C8_EmptyFilteredIsSkipped ==
    ("sustained" \in attempted /\ NoTargetRows(InputOf("sustained"))) =>
        /\ Printed("no_10_second_data", Path(latest_dir, csv_file("sustained")))
        /\ ~stats["sustained"].computed
        /\ ~Written("sustained")
        /\ stderr = <<>>
        /\ pc = "plot_latency_distribution" \/ "latency" \in attempted

C8_Witness ==
    /\ Exited
    /\ "sustained" \in attempted
    /\ NoTargetRows(InputOf("sustained"))
    /\ InputOf("sustained").rows # <<>>
    /\ Written("latency")

\* C9: for a non-empty sweep table the optimal annotation is taken from the
\* row of maximal throughput, the first such row when several tie: its
\* buffer_size and its throughput, which is drawn in millions of ops/sec.
C9_OptimalIsFirstMaximum ==
    ("sweep" \in attempted /\ InputOf("sweep").kind = "table"
        /\ InputOf("sweep").rows # <<>>) =>
        LET rows == InputOf("sweep").rows
            t == Throughputs(rows)
            st == stats["sweep"]
        IN  /\ st.computed
            /\ Written("sweep")
            /\ \E i \in 1..Len(rows) :
                  /\ \A j \in 1..Len(rows) : t[j] <= t[i]
                  /\ \A j \in 1..(i - 1) : t[j] < t[i]
                  /\ st.optimal_idx = i
                  /\ st.optimal_size = rows[i].buffer_size
                  /\ st.optimal_value = t[i]
                  /\ ~st.optimal_throughput.nan
                  /\ st.optimal_throughput.num * Million
                        = t[i] * st.optimal_throughput.den
            /\ rows = SampleSweep.rows =>
                  st.optimal_size = 4 /\ st.optimal_value = 900

C9_Witness ==
    /\ Exited
    /\ stats["sweep"].computed
    /\ Written("sweep")
    /\ LET rows == InputOf("sweep").rows
           t == Throughputs(rows)
       IN  \E i, j \in 1..Len(rows) :
              /\ i < j
              /\ t[i] = t[j]
              /\ \A k \in 1..Len(rows) : t[k] <= t[i]
              /\ rows[i].buffer_size # rows[j].buffer_size
              /\ stats["sweep"].optimal_size = rows[i].buffer_size

ZeroMean(f) ==
    /\ f.kind = "table"
    /\ filter_10s(f.rows) # <<>>
    /\ SumSeq(Throughputs(filter_10s(f.rows))) = 0

\* C10: a non-empty filtered series of mean zero makes the variance
\* percentage fail with a division by zero, reported as a failure of the
\* sustained chart; no sustained chart with an undefined variance is written.
C10_ZeroMeanFailsTheChart ==
    ("sustained" \in attempted /\ ZeroMean(InputOf("sustained"))) =>
        /\ ~Written("sustained")
        /\ stderr # <<>>

\* What the code does instead: the chart is written, its variance NaN.
ZeroMeanWritesNaNVariance ==
    ("sustained" \in attempted /\ ZeroMean(InputOf("sustained"))) =>
        /\ Written("sustained")
        /\ stats["sustained"].variance.nan
        /\ stderr = <<>>

=============================================================================
